---- MODULE Spec2Model ----
(***************************************************************************)
(* The directory reporter load_fonts_info (systemfonts.cpp) and the JNI    *)
(* bridge that calls it (jni.cpp).                                         *)
(*                                                                         *)
(* A string is a sequence of characters.  An ASCII character is itself;    *)
(* a CJK character of a source literal is written "uXXXX", its code point. *)
(* The text of a library exception (what()) is a sequence whose fixed      *)
(* parts are whole tokens.                                                 *)
(***************************************************************************)
EXTENDS Integers, Sequences, FiniteSets

\* ------------------------------------------------------------- bounds

\* Most entries a listed directory holds.
MaxEntries == 2

\* ------------------------------------------- literals of systemfonts.cpp

\* line 33, before the path
NotFoundHead ==
    << "u9519", "u8BEF", ":", " ", "u76EE", "u5F55", " ", "'" >>

\* line 33, after the path
NotFoundTail ==
    << "'", " ", "u4E0D", "u5B58", "u5728" >>

\* line 37, before the path
NotDirHead ==
    << "u9519", "u8BEF", ":", " ", "'" >>

\* line 37, after the path
NotDirTail ==
    << "'", " ", "u4E0D", "u662F", "u4E00", "u4E2A", "u76EE", "u5F55" >>

\* line 48
Arrow ==
    << " ", "-", ">", " " >>

\* line 49
BytesUnit ==
    << " ", "B", "y", "t", "e", "s" >>

\* line 51
SizeUnreadable ==
    << " ", "-", ">", " ", "u65E0", "u6CD5", "u8BFB", "u53D6", "u6587", "u4EF6",
       "u5927", "u5C0F" >>

\* line 54
DirMarker ==
    << " ", "-", ">", " ", "[", "u76EE", "u5F55", "]" >>

\* line 56
OtherMarker ==
    << " ", "-", ">", " ", "[", "u5176", "u4ED6", "u7C7B", "u578B", "]" >>

\* line 62, before the path
EmptyHead ==
    << "u76EE", "u5F55", " ", "'" >>

\* line 62, after the path
EmptyTail ==
    << "'", " ", "u4E2D", "u6CA1", "u6709", "u627E", "u5230", "u4EFB", "u4F55",
       "u6587", "u4EF6" >>

\* line 66, before the path
HeaderHead ==
    << "u76EE", "u5F55", ":", " " >>

\* line 67, before the count
CountHead ==
    << "u627E", "u5230", " " >>

\* line 67, after the count: the count line's end and the blank line
CountTail ==
    << " ", "u4E2A", "u9879", "u76EE", ":", "\n", "\n" >>

\* line 72
ErrorHead ==
    << "u8BBF", "u95EE", "u76EE", "u5F55", "u65F6", "u53D1", "u751F", "u9519",
       "u8BEF", ":", " " >>

\* ------------------------------------------------------ the filesystem

\* No exception.
NoFault == [type |-> "none"]

\* Paths the host passes.
Paths == { << "/", "s" >>, << "/", "t", "f" >> }

\* Names of directory entries: any bytes but '/' and NUL, a line feed included.
Names == { << "a" >>, << "b", ".", "t" >>, << "c", "\n", "d" >> }

\* What status() answers for the path, symbolic links followed ("fault": it
\* fails, as on a parent directory that may not be searched).
PathStats == { "not_found", "regular", "directory", "other", "fault" }

\* What a directory can hold: whether the entry itself is a symbolic link,
\* the type status() finds after following links ("not_found": a dangling
\* link, "fault": a link that cannot be resolved), the size in bytes and
\* whether file_size() can read it.
EntryKinds ==
    { [symlink |-> FALSE, type |-> "regular", size |-> 12, readable |-> TRUE],
      [symlink |-> FALSE, type |-> "regular", size |-> 0, readable |-> FALSE],
      [symlink |-> FALSE, type |-> "directory", size |-> 0, readable |-> TRUE],
      [symlink |-> FALSE, type |-> "other", size |-> 0, readable |-> TRUE],
      [symlink |-> TRUE, type |-> "regular", size |-> 0, readable |-> TRUE],
      [symlink |-> TRUE, type |-> "directory", size |-> 0, readable |-> TRUE],
      [symlink |-> TRUE, type |-> "not_found", size |-> 0, readable |-> TRUE],
      [symlink |-> TRUE, type |-> "fault", size |-> 0, readable |-> TRUE] }

\* An entry: a name and what it is.
Entries ==
    { [name |-> n, symlink |-> k.symlink, type |-> k.type, size |-> k.size,
       readable |-> k.readable] : n \in Names, k \in EntryKinds }

\* The entries of a directory in iteration order: names are distinct.
EntrySeqs ==
    UNION { { es \in [1..n -> Entries] :
                \A i, j \in 1..n : i # j => es[i].name # es[j].name } :
            n \in 0..MaxEntries }

\* The filesystem under one path.  iterFault = {k}: the directory iterator
\* yields k entries and then fails (k = 0: the directory cannot be opened);
\* iterFault = {}: it yields them all.
FileSystems ==
    { [stat |-> s, entries |-> << >>, iterFault |-> { }] :
        s \in PathStats \ { "directory" } }
    \cup UNION { { [stat |-> "directory", entries |-> es, iterFault |-> f] :
                     f \in { { } } \cup { { k } : k \in 0..Len(es) } } :
                 es \in EntrySeqs }

\* ------------------------------------------------------------- strings

Digit(d) == << "0", "1", "2", "3", "4", "5", "6", "7", "8", "9" >>[d + 1]

\* operator<< of an unsigned integer: its decimal digits
RECURSIVE ToDecimal(_)
ToDecimal(n) ==
    IF n < 10 THEN << Digit(n) >>
    ELSE ToDecimal(n \div 10) \o << Digit(n % 10) >>

\* join(arr, sep)
RECURSIVE JoinFrom(_, _, _)
JoinFrom(arr, sep, i) ==
    IF i > Len(arr) THEN << >>
    ELSE sep \o arr[i] \o JoinFrom(arr, sep, i + 1)

join(arr, sep) ==
    IF arr = << >> THEN << >> ELSE arr[1] \o JoinFrom(arr, sep, 2)

\* std::filesystem::path / name
Child(dir, name) == dir \o << "/" >> \o name

\* ---------------------------------------------------------- exceptions

\* A std::filesystem::filesystem_error: the failing operation, the error
\* description and the path it names.
FsError(op, desc, path) ==
    [type |-> "filesystem_error", op |-> op, desc |-> desc, path |-> path]

\* e.what()
What(e) ==
    << "filesystem error: ", e.op, ": ", e.desc, " [" >> \o e.path \o << "]" >>

\* A variant of Catches: a handler for std::bad_alloc alone.
CatchesBadAlloc(e) == e.type = "bad_alloc"

\* catch (const std::exception &e): what the handler of line 71 catches

Catches(e) == e.type \in { "filesystem_error", "bad_alloc", "exception" }

\* A variant of OnException that adds the lines collected so far.
OnExceptionPartial(e, collected) ==
    ErrorHead \o What(e) \o << "\n" >> \o join(collected, << "\n" >>)

\* Line 72, the handler's result; the vector filled so far is in scope and
\* is not used.
OnException(e, collected) == ErrorHead \o What(e)

\* ------------------------------------------------- the transform lambda

\* A variant of EntryType that asks for the type of the entry itself.
EntryTypeNoFollow(e) == IF e.symlink THEN "other" ELSE e.type

\* What entry.is_regular_file() and entry.is_directory() decide on: the type
\* status() reports, symbolic links followed.
EntryType(e) == e.type

\* A variant of SizeFailed with no handler around the size read.
SizeFailedRethrow(dir, e) ==
    [thrown |-> FsError("file_size", "Permission denied", Child(dir, e.name)),
     line |-> << >>, ops |-> << "is_regular_file", "file_size" >>]

\* Lines 47-52 when file_size throws.  The " -> " of line 48 is streamed
\* before file_size is called (a shift expression evaluates its left operand
\* first), so it stays in the line and the handler of line 51 appends its own.
SizeFailed(dir, e) ==
    [thrown |-> NoFault, line |-> e.name \o Arrow \o SizeUnreadable,
     ops |-> << "is_regular_file", "file_size" >>]

\* What one call of the lambda of lines 43-59 does with an entry of `dir`:
\* the line it returns, or the exception it lets out, and the filesystem
\* queries it made.
Lambda(dir, e) ==
    IF EntryType(e) = "fault"
    THEN [thrown |-> FsError("status", "Too many levels of symbolic links",
                             Child(dir, e.name)),
          line |-> << >>, ops |-> << "is_regular_file" >>]
    ELSE IF EntryType(e) = "regular"
    THEN IF e.readable
         THEN [thrown |-> NoFault,
               line |-> e.name \o Arrow \o ToDecimal(e.size) \o BytesUnit,
               ops |-> << "is_regular_file", "file_size" >>]
         ELSE SizeFailed(dir, e)
    ELSE IF EntryType(e) = "directory"
    THEN [thrown |-> NoFault, line |-> e.name \o DirMarker,
          ops |-> << "is_regular_file", "is_directory" >>]
    ELSE [thrown |-> NoFault, line |-> e.name \o OtherMarker,
          ops |-> << "is_regular_file", "is_directory" >>]

\* --------------------------------------------------- the result strings

\* A variant of NotFoundMessage without the path.
NotFoundNoPath(dir) == NotFoundHead \o NotFoundTail

\* line 33
NotFoundMessage(dir) == NotFoundHead \o dir \o NotFoundTail

\* A variant of NotDirMessage that reuses the text of line 33.
NotDirAsNotFound(dir) == NotFoundHead \o dir \o NotFoundTail

\* line 37
NotDirMessage(dir) == NotDirHead \o dir \o NotDirTail

\* line 62
EmptyMessage(dir) == EmptyHead \o dir \o EmptyTail

\* lines 65-70
Report(dir, lines) ==
    HeaderHead \o dir \o << "\n" >>
    \o CountHead \o ToDecimal(Len(lines)) \o CountTail
    \o join(lines, << "\n" >>)

\* A variant of Finish without the test of line 61.
FinishNoEmptyCheck(dir, lines) == Report(dir, lines)

\* lines 61-70: what is returned once the walk is complete
Finish(dir, lines) ==
    IF lines = << >> THEN EmptyMessage(dir) ELSE Report(dir, lines)

\* ---------------------------------------------------------------- state

VARIABLES
    fs,          \* the filesystem under the path, unchanged through the run
    jdirectory,  \* the host string the bridge is called with
    pc,          \* where the current call is
    str,         \* the buffer of GetStringUTFChars
    acquired,    \* buffers the host lent to the current call
    released,    \* ReleaseStringUTFChars calls of the current call
    directory,   \* load_fonts_info's parameter
    fontfiles,   \* the vector of entry lines
    pos,         \* entries the directory iterator has yielded
    ops,         \* the filesystem queries of the current call, in order
    caught,      \* the exception raised in the current call, if any
    result,      \* what load_fonts_info returned
    returned,    \* the strings handed back to the host by the calls so far
    escaped      \* what left the bridge instead of a return, if anything

vars ==
    << fs, jdirectory, pc, str, acquired, released, directory, fontfiles, pos,
       ops, caught, result, returned, escaped >>

Init ==
    /\ fs \in FileSystems
    /\ jdirectory \in Paths
    /\ pc = "host"
    /\ str = "none"
    /\ acquired = 0
    /\ released = 0
    /\ directory = << >>
    /\ fontfiles = << >>
    /\ pos = 0
    /\ ops = << >>
    /\ caught = NoFault
    /\ result = << >>
    /\ returned = { }
    /\ escaped = "none"

\* ------------------------------------------------------- the reporter

\* A variant of NewVector: the vector of the previous call, kept.
StaleVector == fontfiles

\* Line 28: the vector is constructed empty at each call.
NewVector == << >>

\* An exception raised inside the try block of lines 30-71: the handler of
\* line 71 turns it into the result, or it leaves load_fonts_info.
Throw(e) ==
    /\ caught' = e
    /\ IF Catches(e)
       THEN /\ result' = OnException(e, fontfiles')
            /\ pc' = "NewStringUTF"
            /\ escaped' = escaped
       ELSE /\ result' = result
            /\ pc' = "dead"
            /\ escaped' = e.type

\* Lines 27-38: the vector, the existence check and the directory check.
CheckPath ==
    /\ pc = "load_fonts_info"
    /\ fontfiles' = NewVector
    /\ pos' = 0
    /\ IF fs.stat = "fault"
       THEN /\ ops' = << "exists" >>
            /\ Throw(FsError("status", "Permission denied", directory))
       ELSE IF fs.stat = "not_found"
       THEN /\ ops' = << "exists" >>
            /\ result' = NotFoundMessage(directory)
            /\ pc' = "NewStringUTF"
            /\ UNCHANGED << caught, escaped >>
       ELSE IF fs.stat # "directory"
       THEN /\ ops' = << "exists", "is_directory" >>
            /\ result' = NotDirMessage(directory)
            /\ pc' = "NewStringUTF"
            /\ UNCHANGED << caught, escaped >>
       ELSE /\ ops' = << "exists", "is_directory" >>
            /\ pc' = "transform"
            /\ UNCHANGED << caught, escaped, result >>
    /\ UNCHANGED << fs, jdirectory, str, acquired, released, directory,
                    returned >>

\* Lines 40-42: constructing or advancing the directory iterator fails.
IteratorFails ==
    /\ pc = "transform"
    /\ pos \in fs.iterFault
    /\ ops' = Append(ops, "directory_iterator")
    /\ fontfiles' = fontfiles
    /\ Throw(IF pos = 0
             THEN FsError("directory iterator cannot open directory",
                          "Permission denied", directory)
             ELSE FsError("directory iterator cannot advance",
                          "Input/output error", directory))
    /\ UNCHANGED << fs, jdirectory, str, acquired, released, directory, pos,
                    returned >>

\* Lines 40-59: the iterator yields the next entry, the lambda renders it and
\* the line is appended to the vector.
TransformEntry ==
    /\ pc = "transform"
    /\ pos \notin fs.iterFault
    /\ pos < Len(fs.entries)
    /\ LET r == Lambda(directory, fs.entries[pos + 1])
       IN  /\ ops' = ops \o << "directory_iterator" >> \o r.ops
           /\ IF r.thrown = NoFault
              THEN /\ fontfiles' = Append(fontfiles, r.line)
                   /\ pos' = pos + 1
                   /\ UNCHANGED << pc, caught, result, escaped >>
              ELSE /\ fontfiles' = fontfiles
                   /\ pos' = pos
                   /\ Throw(r.thrown)
    /\ UNCHANGED << fs, jdirectory, str, acquired, released, directory,
                    returned >>

\* Lines 40-42 and 61-70: the iterator reaches the end; the result is built.
TransformEnds ==
    /\ pc = "transform"
    /\ pos \notin fs.iterFault
    /\ pos = Len(fs.entries)
    /\ ops' = Append(ops, "directory_iterator")
    /\ result' = Finish(directory, fontfiles)
    /\ pc' = "NewStringUTF"
    /\ UNCHANGED << fs, jdirectory, str, acquired, released, directory,
                    fontfiles, pos, caught, returned, escaped >>

\* --------------------------------------------------------- the bridge

\* jni.cpp line 9: the host calls the bridge, which borrows the characters
\* of the host string; GetStringUTFChars answers NULL when it cannot.
GetStringUTFChars ==
    /\ pc = "host"
    /\ \E ok \in BOOLEAN :
         /\ str' = IF ok THEN "borrowed" ELSE "null"
         /\ acquired' = IF ok THEN 1 ELSE 0
    /\ released' = 0
    /\ pc' = "string"
    /\ ops' = << >>
    /\ caught' = NoFault
    /\ UNCHANGED << fs, jdirectory, directory, fontfiles, pos, result,
                    returned, escaped >>

\* jni.cpp line 10: std::string result(str).  Constructing from NULL is
\* undefined: the build reads through the null pointer or throws
\* std::logic_error.  Copying a borrowed buffer may throw std::bad_alloc.
\* Nothing in the bridge catches either, so line 11 is not reached.
StringFromChars ==
    /\ pc = "string"
    /\ IF str = "null"
       THEN /\ \E how \in { "SIGSEGV", "logic_error" } : escaped' = how
            /\ pc' = "dead"
            /\ directory' = directory
       ELSE \E ok \in BOOLEAN :
              IF ok
              THEN /\ directory' = jdirectory
                   /\ pc' = "ReleaseStringUTFChars"
                   /\ escaped' = escaped
              ELSE /\ directory' = directory
                   /\ pc' = "dead"
                   /\ escaped' = "bad_alloc"
    /\ UNCHANGED << fs, jdirectory, str, acquired, released, fontfiles, pos,
                    ops, caught, result, returned >>

\* jni.cpp lines 11-12 and 19: the buffer is given back and the copy is
\* passed to load_fonts_info.
ReleaseStringUTFChars ==
    /\ pc = "ReleaseStringUTFChars"
    /\ str' = "released"
    /\ released' = released + 1
    /\ pc' = "load_fonts_info"
    /\ UNCHANGED << fs, jdirectory, acquired, directory, fontfiles, pos, ops,
                    caught, result, returned, escaped >>

\* jni.cpp line 20: the result goes back to the host as a new host string.
NewStringUTF ==
    /\ pc = "NewStringUTF"
    /\ returned' = returned \cup { result }
    /\ pc' = "host"
    /\ UNCHANGED << fs, jdirectory, str, acquired, released, directory,
                    fontfiles, pos, ops, caught, result, escaped >>

Next ==
    \/ GetStringUTFChars
    \/ StringFromChars
    \/ ReleaseStringUTFChars
    \/ CheckPath
    \/ IteratorFails
    \/ TransformEntry
    \/ TransformEnds
    \/ NewStringUTF

Spec == Init /\ [][Next]_vars

\* ------------------------------------------- reading a returned string

StartsWith(s, prefix) ==
    /\ Len(prefix) <= Len(s)
    /\ SubSeq(s, 1, Len(prefix)) = prefix

EndsWith(s, suffix) ==
    /\ Len(suffix) <= Len(s)
    /\ SubSeq(s, Len(s) - Len(suffix) + 1, Len(s)) = suffix

Contains(s, sub) ==
    \E i \in 0..(Len(s) - Len(sub)) : SubSeq(s, i + 1, i + Len(sub)) = sub

\* The lines of a text: the pieces between its line feeds.
RECURSIVE SplitLines(_)
SplitLines(s) ==
    IF \A i \in DOMAIN s : s[i] # "\n" THEN << s >>
    ELSE LET k == CHOOSE i \in DOMAIN s :
                    /\ s[i] = "\n"
                    /\ \A j \in 1..(i - 1) : s[j] # "\n"
         IN  << SubSeq(s, 1, k - 1) >> \o SplitLines(SubSeq(s, k + 1, Len(s)))

IsDigit(c) == \E d \in 0..9 : Digit(d) = c

DigitValue(c) == CHOOSE d \in 0..9 : Digit(d) = c

\* The number a text starts with.
RECURSIVE ParseDecimal(_, _)
ParseDecimal(s, acc) ==
    IF s = << >> \/ ~IsDigit(Head(s)) THEN acc
    ELSE ParseDecimal(Tail(s), 10 * acc + DigitValue(Head(s)))

\* The shapes of a result.
IsReport(s) == StartsWith(s, HeaderHead)

IsEmptyMessage(s) == StartsWith(s, EmptyHead) /\ EndsWith(s, EmptyTail)

IsNotFound(s) == StartsWith(s, NotFoundHead) /\ EndsWith(s, NotFoundTail)

IsNotDir(s) == StartsWith(s, NotDirHead) /\ EndsWith(s, NotDirTail)

IsError(s) == StartsWith(s, ErrorHead)

\* The count a report states on its second line.
StatedCount(s) ==
    LET l == SplitLines(s)[2]
    IN  ParseDecimal(SubSeq(l, Len(CountHead) + 1, Len(l)), 0)

\* The lines a report holds after the header, the count line and the blank
\* line.
EntryLineCount(s) == Len(SplitLines(s)) - 3

\* load_fonts_info has just returned.
Returned == pc = "NewStringUTF"

\* The current call walked the whole directory.
WalkedAll ==
    /\ Returned
    /\ fs.stat = "directory"
    /\ caught = NoFault

\* --------------------------------------------------------------- claims

\* C1: whenever load_fonts_info returns a report for a directory of N >= 1
\* entries, the count the report states is N and the report holds exactly N
\* lines after the header, the count line and the blank line, whatever the
\* names of the entries are.
C1_CountEqualsEntryLines ==
    (Returned /\ IsReport(result)) =>
        /\ StatedCount(result) = Len(fs.entries)
        /\ EntryLineCount(result) = Len(fs.entries)

\* C2: every exception raised by the existence check, the directory check,
\* the enumeration or an entry's type query is caught inside load_fonts_info
\* and becomes the error string holding the exception's description; none
\* leaves load_fonts_info, and a call that has started always has a next
\* step until it returns.
C2_FaultsBecomeStrings ==
    /\ pc = "dead" => caught = NoFault
    /\ (Returned /\ caught # NoFault) =>
           /\ result = ErrorHead \o What(caught)
           /\ Contains(result, << caught.desc >>)
           /\ caught.op \in { "status", "directory iterator cannot open directory",
                              "directory iterator cannot advance" }
    /\ pc \in { "load_fonts_info", "transform" } =>
           ENABLED (CheckPath \/ IteratorFails \/ TransformEntry \/ TransformEnds)

\* C2's case: the directory exists and cannot be opened.
C2_Witness ==
    /\ Returned
    /\ caught # NoFault
    /\ caught.op = "directory iterator cannot open directory"
    /\ IsError(result)

\* What a degraded line looks like: the name, then the unreadable-size
\* marker at the end, and no size.
IsDegradedLine(e, line) ==
    /\ StartsWith(line, e.name)
    /\ EndsWith(line, SizeUnreadable)
    /\ ~Contains(line, BytesUnit)

\* The line of an entry whose size was read, or that has no size.
NormalLine(e) ==
    IF e.type = "regular" THEN e.name \o Arrow \o ToDecimal(e.size) \o BytesUnit
    ELSE IF e.type = "directory" THEN e.name \o DirMarker
    ELSE e.name \o OtherMarker

UnreadableFile(e) == e.type = "regular" /\ ~e.readable

\* C3: a failed size read degrades that entry's line alone.  The walk goes
\* on: every entry the iterator has yielded has its line, degraded exactly
\* where the size read failed; a failed size read is never what turns the
\* result into the error string; and a completed walk returns a report that
\* counts the degraded entries too.
C3_SizeFailureIsLocal ==
    /\ pc \in { "transform", "NewStringUTF" } =>
           /\ Len(fontfiles) = pos
           /\ \A i \in 1..pos :
                  IF UnreadableFile(fs.entries[i])
                  THEN IsDegradedLine(fs.entries[i], fontfiles[i])
                  ELSE fontfiles[i] = NormalLine(fs.entries[i])
    /\ (Returned /\ caught # NoFault) => caught.op # "file_size"
    /\ (WalkedAll /\ fs.entries # << >>) =>
           /\ IsReport(result)
           /\ StatedCount(result) = Len(fs.entries)
           /\ \A i \in 1..Len(fs.entries) : Contains(result, fontfiles[i])

\* C3's case: the first size read failed and the walk went on to a second
\* file, whose size was read.
C3_Witness ==
    /\ WalkedAll
    /\ Len(fs.entries) = 2
    /\ UnreadableFile(fs.entries[1])
    /\ fs.entries[2].type = "regular" /\ fs.entries[2].readable
    /\ IsReport(result)

\* C4: for a path that does not exist the result is the not-found message
\* around the path the host passed; the existence check is the only
\* filesystem query made, and the result has none of the other shapes.
C4_NotFound ==
    (Returned /\ fs.stat = "not_found") =>
        /\ result = NotFoundHead \o jdirectory \o NotFoundTail
        /\ ops = << "exists" >>
        /\ fontfiles = << >>
        /\ ~IsNotDir(result) /\ ~IsEmptyMessage(result)
        /\ ~IsReport(result) /\ ~IsError(result)

\* C4's case: a missing path, the longer one.
C4_Witness ==
    /\ Returned
    /\ fs.stat = "not_found"
    /\ jdirectory = << "/", "t", "f" >>
    /\ IsNotFound(result)

\* C5: for a path that exists and is not a directory the result is the
\* not-a-directory message around the path, which is no not-found message,
\* and the directory is never iterated.
C5_NotADirectory ==
    (Returned /\ fs.stat \in { "regular", "other" }) =>
        /\ result = NotDirHead \o jdirectory \o NotDirTail
        /\ \A p \in Paths : result # NotFoundHead \o p \o NotFoundTail
        /\ ~IsNotFound(result)
        /\ ops = << "exists", "is_directory" >>
        /\ fontfiles = << >>

\* C5's case: the path is a regular file.
C5_Witness ==
    /\ Returned
    /\ fs.stat = "regular"
    /\ IsNotDir(result)

\* C6: for an existing directory with no entries the result is the
\* empty-directory message around the path, with no header and no count
\* line, and it is none of the not-found, not-a-directory and error messages;
\* and the empty-directory message is returned only after a complete walk
\* that found no entry.
C6_EmptyDirectory ==
    /\ (WalkedAll /\ fs.entries = << >>) =>
           /\ result = EmptyHead \o jdirectory \o EmptyTail
           /\ ~IsReport(result)
           /\ ~Contains(result, CountHead)
           /\ ~IsNotFound(result) /\ ~IsNotDir(result) /\ ~IsError(result)
           /\ \A q \in Paths :
                  /\ result # NotFoundHead \o q \o NotFoundTail
                  /\ result # NotDirHead \o q \o NotDirTail
    /\ (Returned /\ IsEmptyMessage(result)) =>
           /\ fs.stat = "directory"
           /\ fs.entries = << >>
           /\ fs.iterFault = { }
           /\ caught = NoFault
           /\ ops = << "exists", "is_directory", "directory_iterator" >>

\* C6's case: an empty directory has been walked.
C6_Witness ==
    /\ WalkedAll
    /\ fs.entries = << >>
    /\ IsEmptyMessage(result)

\* The line ends in a size or in the unreadable-size marker.
IsSizeLine(line) == EndsWith(line, BytesUnit) \/ EndsWith(line, SizeUnreadable)

\* C7, as stated: every entry that is itself neither a regular file nor a
\* directory, a symbolic link included whatever it points to, is rendered
\* with the other-type marker; only regular files get a size line and only
\* directories the directory marker.
C7_LinksAreOther ==
    WalkedAll =>
        \A i \in 1..Len(fs.entries) :
            LET e == fs.entries[i]
                own == IF e.symlink THEN "symlink" ELSE e.type
            IN  /\ own \notin { "regular", "directory" } =>
                       fontfiles[i] = e.name \o OtherMarker
                /\ IsSizeLine(fontfiles[i]) => own = "regular"
                /\ EndsWith(fontfiles[i], DirMarker) => own = "directory"

\* C7, amended: the type is the one status() finds after following symbolic
\* links.  An entry is rendered with the other-type marker exactly when that
\* type is neither regular file nor directory (a device, a socket, a dangling
\* link); it gets a size line exactly when that type is regular file and the
\* directory marker exactly when it is directory, a link to a file or to a
\* directory included.
C7_FollowedTypeDecides ==
    WalkedAll =>
        \A i \in 1..Len(fs.entries) :
            LET e == fs.entries[i]
            IN  /\ fontfiles[i] = e.name \o OtherMarker
                       <=> e.type \notin { "regular", "directory" }
                /\ IsSizeLine(fontfiles[i]) <=> e.type = "regular"
                /\ fontfiles[i] = e.name \o DirMarker <=> e.type = "directory"

\* C7's case: a link to a regular file and a dangling link in one report.
C7_Witness ==
    /\ WalkedAll
    /\ Len(fs.entries) = 2
    /\ fs.entries[1].symlink /\ fs.entries[1].type = "regular"
    /\ fs.entries[2].symlink /\ fs.entries[2].type = "not_found"
    /\ IsReport(result)
    /\ EndsWith(result, OtherMarker)

\* The bridge is not executing: it has returned, or something left it.
BridgeExited == pc \in { "host", "dead" }

\* C8: the buffer the bridge borrowed is released before the bridge is left,
\* on every path, a failed copy into the native string included; it is
\* released once, and never without having been acquired.
C8_ReleasedBeforeExit ==
    /\ released <= acquired
    /\ BridgeExited => (released = acquired /\ str # "borrowed")

\* C9: all calls with the same path on the unchanged filesystem hand back
\* the same string.
C9_Idempotent ==
    /\ Cardinality(returned) <= 1
    /\ (Returned /\ returned # { }) => result \in returned

\* C9's case: a second call has built its report of two entries after an
\* earlier call returned.
C9_Witness ==
    /\ Returned
    /\ returned # { }
    /\ IsReport(result)
    /\ Len(fs.entries) = 2

\* C10: when an exception ends the walk, the result is the error message
\* alone: it has no header and no count, and none of the lines collected so
\* far is in it.  A report is returned only when every entry was rendered.
C10_AllOrNothing ==
    /\ (Returned /\ caught # NoFault) =>
           /\ result = ErrorHead \o What(caught)
           /\ ~IsReport(result)
           /\ ~Contains(result, HeaderHead)
           /\ ~Contains(result, CountHead)
           /\ \A i \in 1..Len(fontfiles) : ~Contains(result, fontfiles[i])
    /\ (Returned /\ IsReport(result)) =>
           /\ caught = NoFault
           /\ Len(fontfiles) = Len(fs.entries)
           /\ pos = Len(fs.entries)

\* C10's case: the type query of the second entry failed after the first
\* entry's line was collected.
C10_Witness ==
    /\ Returned
    /\ caught # NoFault
    /\ caught.op = "status"
    /\ Len(fontfiles) = 1
    /\ pos = 1
    /\ IsError(result)

====
